---- MODULE Spec2Model ----
(***************************************************************************)
(* Model of src/main.py: the Mainboard registry, the MainboardComponent    *)
(* records it owns, and its query operations.                              *)
(*                                                                         *)
(* Objects live in a heap (a sequence of component records indexed by      *)
(* object identity); a Mainboard is a mapping from attribute name to a     *)
(* tagged value, so that the isinstance tests of get_all_components are    *)
(* decided by the value found under the attribute, as in the code.         *)
(* Only the attributes and methods main.py itself defines are modelled:    *)
(* whatever the tf.keras base classes add to dir(self) is not part of the  *)
(* repository.                                                             *)
(***************************************************************************)
EXTENDS Integers, Sequences, FiniteSets, TLC

VARIABLES heap, boards, result

vars == <<heap, boards, result>>

\* ---- bounds ----
MaxBoards == 2
MaxFaulty == 1

\* form_factor arguments tried ('ATX' is the default, 'E-ATX' the usage example)
FormFactors == {"ATX", "E-ATX", "Micro-ATX"}

\* status values a client may have written into a component
Statuses == {"operational", "failed"}

\* ---- group sizes: the range(n) literals of initialize_components ----
NumMemorySlots == 4
NumM2Slots == 4
NumSataPorts == 8
NumFanHeaders == 8
NumPumpHeaders == 2
NumArgbHeaders == 3
NumRgbHeaders == 2
NumThunderbolt == 2
NumPcieX16 == 2
NumPcieX1 == 2
\* variant: the x4 group built with the range of the x1 group
NumPcieX4_asX1 == NumPcieX1
NumPcieX4 == 1

None == "None"

\* variant: telemetry starts at an ambient reading instead of 0
MainboardComponent_ambient(component_type, specs, location) ==
    [component_type |-> component_type,
     specs          |-> specs,
     location       |-> location,
     connections    |-> <<>>,
     temperature    |-> 25,
     power_draw     |-> 0,
     status         |-> "operational"]

\* MainboardComponent.__init__
MainboardComponent(component_type, specs, location) ==
    [component_type |-> component_type,
     specs          |-> specs,
     location       |-> location,
     connections    |-> <<>>,
     temperature    |-> 0,
     power_draw     |-> 0,
     status         |-> "operational"]

\* The constructor calls of initialize_components, in program order.  attr is
\* the attribute assigned, key the dict key ("" when the attribute is not a
\* dict), shape how the attribute holds the objects, n how many are built.
ComponentTables ==
    << [attr |-> "cpu_socket", key |-> "", shape |-> "single", n |-> 1,
        kind |-> "CPU Socket",
        specs |-> [type |-> "LGA1700", pins |-> 1700,
                   supported_cpus |-> <<"12th Gen Intel", "13th Gen Intel", "14th Gen Intel">>,
                   max_tdp |-> 253, overclocking |-> TRUE]],
       [attr |-> "chipset", key |-> "", shape |-> "single", n |-> 1,
        kind |-> "Chipset",
        specs |-> [model |-> "Z790",
                   features |-> <<"PCIe 5.0", "DDR5 Support", "WiFi 6E", "Thunderbolt 4">>,
                   max_memory_speed |-> 7800]],
       [attr |-> "memory_slots", key |-> "", shape |-> "list", n |-> NumMemorySlots,
        kind |-> "RAM Slot",
        specs |-> [type |-> "DDR5", max_speed |-> 7800, channels |-> "Dual-Channel",
                   xmp_support |-> TRUE, ecc_support |-> TRUE]],
       [attr |-> "m2_slots", key |-> "", shape |-> "list", n |-> NumM2Slots,
        kind |-> "M.2 Slot",
        specs |-> [interface |-> "PCIe 5.0 x4",
                   form_factors |-> <<"2280", "2260", "2242", "22110">>,
                   cooling |-> "Heatsink included", max_speed |-> "128 Gb/s"]],
       [attr |-> "sata_ports", key |-> "", shape |-> "list", n |-> NumSataPorts,
        kind |-> "SATA Port",
        specs |-> [version |-> "SATA III", speed |-> "6 Gb/s",
                   raid_support |-> <<"0", "1", "5", "10">>]],
       [attr |-> "vrm", key |-> "", shape |-> "single", n |-> 1,
        kind |-> "VRM",
        specs |-> [phases |-> "20+1+2", mosfets |-> "DrMOS 90A",
                   controller |-> "Digitally Controlled", cooling |-> "Extended Heatsink",
                   monitoring |-> "Real-time current and temperature"]],
       [attr |-> "fan_headers", key |-> "", shape |-> "list", n |-> NumFanHeaders,
        kind |-> "Fan Header",
        specs |-> [type |-> "PWM", max_current |-> "2A", smart_control |-> TRUE,
                   hybrid_mode |-> TRUE]],
       [attr |-> "pump_headers", key |-> "", shape |-> "list", n |-> NumPumpHeaders,
        kind |-> "Pump Header",
        specs |-> [type |-> "AIO/Custom Loop", max_current |-> "3A", smart_control |-> TRUE]],
       [attr |-> "rgb_headers", key |-> "addressable", shape |-> "dict", n |-> NumArgbHeaders,
        kind |-> "ARGB Header",
        specs |-> [pins |-> 3, voltage |-> "5V", max_current |-> "3A", led_count |-> 300]],
       [attr |-> "rgb_headers", key |-> "traditional", shape |-> "dict", n |-> NumRgbHeaders,
        kind |-> "RGB Header",
        specs |-> [pins |-> 4, voltage |-> "12V", max_current |-> "3A"]],
       [attr |-> "debug_features", key |-> "", shape |-> "single", n |-> 1,
        kind |-> "Debug System",
        specs |-> [post_code |-> "LED Display", voltage_monitoring |-> TRUE,
                   temperature_sensors |-> 10, fan_monitoring |-> TRUE,
                   error_logging |-> TRUE]],
       [attr |-> "bios_system", key |-> "", shape |-> "single", n |-> 1,
        kind |-> "BIOS",
        specs |-> [type |-> "UEFI", size |-> "256Mb", dual_bios |-> TRUE, flashback |-> TRUE,
                   secure_boot |-> TRUE, tpm_support |-> "2.0"]],
       [attr |-> "audio_system", key |-> "", shape |-> "single", n |-> 1,
        kind |-> "Audio",
        specs |-> [codec |-> "Realtek ALC4082", dac |-> "ESS SABRE9018Q2C", snr |-> "130dB",
                   amplifier |-> "Texas Instruments", isolation |-> "EMI Shielding"]],
       [attr |-> "network", key |-> "", shape |-> "single", n |-> 1,
        kind |-> "Network",
        specs |-> [ethernet_1 |-> "10 GbE", ethernet_2 |-> "2.5 GbE", wifi |-> "WiFi 6E",
                   bluetooth |-> "5.3"]],
       [attr |-> "thunderbolt", key |-> "", shape |-> "list", n |-> NumThunderbolt,
        kind |-> "Thunderbolt 4",
        specs |-> [speed |-> "40 Gbps", power_delivery |-> "100W",
                   display_support |-> "8K@60Hz"]],
       [attr |-> "pcie_slots", key |-> "x16", shape |-> "dict", n |-> NumPcieX16,
        kind |-> "PCIe x16",
        specs |-> [version |-> "PCIe 5.0", lanes |-> 16, reinforced |-> TRUE,
                   bifurcation |-> "x8/x8 capable"]],
       [attr |-> "pcie_slots", key |-> "x4", shape |-> "dict", n |-> NumPcieX4,
        kind |-> "PCIe x4",
        specs |-> [version |-> "PCIe 4.0", lanes |-> 4]],
       [attr |-> "pcie_slots", key |-> "x1", shape |-> "dict", n |-> NumPcieX1,
        kind |-> "PCIe x1",
        specs |-> [version |-> "PCIe 3.0", lanes |-> 1]] >>


NumTables == Len(ComponentTables)

\* number of objects built by the constructor calls that precede call k
RECURSIVE Offset(_)
Offset(k) == IF k = 1 THEN 0 ELSE Offset(k - 1) + ComponentTables[k - 1].n

\* variant: "[MainboardComponent(...)] * n", one object repeated n times
NewIds_sameObject(base, k) == [i \in 1..ComponentTables[k].n |-> base + Offset(k) + 1]

\* identities of the objects built by constructor call k, allocation starting
\* after base: the list comprehension "for _ in range(n)"
NewIds(base, k) == [i \in 1..ComponentTables[k].n |-> base + Offset(k) + i]

\* the objects built by the first k constructor calls, in allocation order
RECURSIVE NewObjects(_)
NewObjects(k) ==
    IF k = 0 THEN <<>>
    ELSE NewObjects(k - 1) \o
         [i \in 1..ComponentTables[k].n |->
             MainboardComponent(ComponentTables[k].kind, ComponentTables[k].specs, None)]

ComponentAttrs == {ComponentTables[k].attr : k \in 1..NumTables}

\* the value initialize_components assigns to attribute a
AttrValue(base, a) ==
    LET K == {k \in 1..NumTables : ComponentTables[k].attr = a}
        k0 == CHOOSE k \in K : TRUE
    IN  CASE ComponentTables[k0].shape = "single" ->
                [type |-> "MainboardComponent", ref |-> base + Offset(k0) + 1]
          [] ComponentTables[k0].shape = "list" ->
                [type |-> "list", items |-> NewIds(base, k0)]
          [] ComponentTables[k0].shape = "dict" ->
                [type |-> "dict",
                 items |-> [g \in {ComponentTables[k].key : k \in K} |->
                              NewIds(base, CHOOSE k \in K : ComponentTables[k].key = g)]]

\* Mainboard.initialize_components: self gains the component attributes, the
\* heap gains the new objects
initialize_components(self, base) ==
    [self    |-> [a \in ComponentAttrs |-> AttrValue(base, a)] @@ self,
     objects |-> NewObjects(NumTables)]

\* variant: the topology depends on the form factor (a small board gets two
\* memory slots)
MainboardInit_byFormFactor(form_factor, base) ==
    LET r == initialize_components([form_factor |-> [type |-> "str", val |-> form_factor]], base)
    IN  IF form_factor = "Micro-ATX"
        THEN [r EXCEPT !.self = [a \in DOMAIN r.self |->
                 IF a = "memory_slots"
                 THEN [type |-> "list", items |-> SubSeq(r.self[a].items, 1, 2)]
                 ELSE r.self[a]]]
        ELSE r

\* Mainboard.__init__
MainboardInit(form_factor, base) ==
    initialize_components([form_factor |-> [type |-> "str", val |-> form_factor]], base)

\* ---- attribute lookup ----

\* variant: the data sources are defined as methods
MainboardMethods_withSources ==
    {"initialize_components", "monitor_temperatures", "manage_power_delivery",
     "run_diagnostics", "verify_all_components", "get_all_components", "call",
     "get_cpu_temp", "get_vrm_temp", "get_m2_temp", "get_chipset_temp",
     "calculate_total_power", "calculate_power_efficiency"}

\* methods defined in class Mainboard
MainboardMethods ==
    {"initialize_components", "monitor_temperatures", "manage_power_delivery",
     "run_diagnostics", "verify_all_components", "get_all_components", "call"}

HasAttr(self, name) == name \in DOMAIN self \/ name \in MainboardMethods

\* dir(self) lists attribute names in sorted order; DirOrder is that order for
\* the data attributes main.py assigns
DirOrder ==
    << "audio_system", "bios_system", "chipset", "cpu_socket", "debug_features",
       "fan_headers", "form_factor", "m2_slots", "memory_slots", "network",
       "pcie_slots", "pump_headers", "rgb_headers", "sata_ports", "thunderbolt",
       "vrm" >>

Dir(self) == SelectSeq(DirOrder, LAMBDA a : a \in DOMAIN self)

\* ---- operations: each yields what it raised or returned, and the heap it leaves ----

Ret(what, components, statuses, h) ==
    [raised |-> "", returned |-> what, components |-> components,
     statuses |-> statuses, heap |-> h]

Raise(name, h) ==
    [raised |-> name, returned |-> "", components |-> <<>>, statuses |-> <<>>, heap |-> h]

\* variant: append(attr[0]) where the code has extend(attr)
Collect_appendFirst(components, attr) ==
    IF attr.type = "MainboardComponent" THEN Append(components, attr.ref)
    ELSE IF attr.type = "list" /\ Len(attr.items) > 0 THEN Append(components, attr.items[1])
    ELSE components

\* variant: the branch for a single component is missing
Collect_listsOnly(components, attr) ==
    IF attr.type = "list" /\ Len(attr.items) > 0 THEN components \o attr.items
    ELSE components

\* one iteration of the loop of get_all_components
Collect(components, attr) ==
    IF attr.type = "MainboardComponent" THEN Append(components, attr.ref)
    ELSE IF attr.type = "list" /\ Len(attr.items) > 0 THEN components \o attr.items
    ELSE components

RECURSIVE CollectAll(_, _, _)
CollectAll(self, names, i) ==
    IF i = 0 THEN <<>>
    ELSE Collect(CollectAll(self, names, i - 1), self[names[i]])

\* Mainboard.get_all_components
get_all_components(self, h) ==
    Ret("components", CollectAll(self, Dir(self), Len(Dir(self))), <<>>, h)

\* variant: a kind already in the mapping keeps its first value
RECURSIVE DictComp_firstWins(_, _, _)
DictComp_firstWins(components, h, i) ==
    IF i = 0 THEN <<>>
    ELSE LET d == DictComp_firstWins(components, h, i - 1)
             c == h[components[i]]
         IN  [k \in DOMAIN d \cup {c.component_type} |->
                 IF k \in DOMAIN d THEN d[k] ELSE c.status]

\* the dict comprehension of verify_all_components over the first i components
RECURSIVE DictComp(_, _, _)
DictComp(components, h, i) ==
    IF i = 0 THEN <<>>
    ELSE LET d == DictComp(components, h, i - 1)
             c == h[components[i]]
         IN  [k \in DOMAIN d \cup {c.component_type} |->
                 IF k = c.component_type THEN c.status ELSE d[k]]

\* Mainboard.verify_all_components
verify_all_components(self, h) ==
    LET r == get_all_components(self, h)
    IN  Ret("component_status", <<>>,
            DictComp(r.components, r.heap, Len(r.components)), r.heap)

\* the first of the names that self does not have, "" when it has them all
RECURSIVE FirstMissing(_, _)
FirstMissing(self, names) ==
    IF names = <<>> THEN ""
    ELSE IF ~HasAttr(self, Head(names)) THEN Head(names)
    ELSE FirstMissing(self, Tail(names))

\* Mainboard.monitor_temperatures
monitor_temperatures(self, h) ==
    LET lookups == <<"get_cpu_temp", "get_vrm_temp", "m2_slots">>
                   \o (IF Len(self["m2_slots"].items) > 0 THEN <<"get_m2_temp">> ELSE <<>>)
                   \o <<"get_chipset_temp">>
        missing == FirstMissing(self, lookups)
    IN  IF missing # "" THEN Raise(missing, h) ELSE Ret("temps", <<>>, <<>>, h)

\* variant: the reading of vrm.power_draw is replaced by an update of it
manage_power_delivery_writes(self, h) ==
    LET lookups == <<"vrm", "calculate_total_power", "calculate_power_efficiency">>
        missing == FirstMissing(self, lookups)
        h2 == IF HasAttr(self, "vrm")
              THEN [h EXCEPT ![self["vrm"].ref].power_draw = 1] ELSE h
    IN  IF missing # "" THEN Raise(missing, h2) ELSE Ret("power_status", <<>>, <<>>, h2)

\* Mainboard.manage_power_delivery
manage_power_delivery(self, h) ==
    LET lookups == <<"vrm", "calculate_total_power", "calculate_power_efficiency">>
        missing == FirstMissing(self, lookups)
    IN  IF missing # "" THEN Raise(missing, h) ELSE Ret("power_status", <<>>, <<>>, h)

\* Mainboard.run_diagnostics
run_diagnostics(self, h) ==
    IF ~HasAttr(self, "debug_features") THEN Raise("debug_features", h)
    ELSE LET v == verify_all_components(self, h)
             t == monitor_temperatures(self, v.heap)
             p == manage_power_delivery(self, t.heap)
         IN  IF v.raised # "" THEN v
             ELSE IF t.raised # "" THEN t
             ELSE IF p.raised # "" THEN p
             ELSE Ret("diagnostics", <<>>, v.statuses, p.heap)

\* Mainboard.call
call(self, h) == run_diagnostics(self, h)

\* ---- state machine ----

NoResult ==
    [op |-> "", self |-> 0, raised |-> "", returned |-> "",
     components |-> <<>>, statuses |-> <<>>]

Outcome(op, b, r) ==
    [op |-> op, self |-> b, raised |-> r.raised, returned |-> r.returned,
     components |-> r.components, statuses |-> r.statuses]

Init ==
    /\ heap = <<>>
    /\ boards = <<>>
    /\ result = NoResult

\* Mainboard(form_factor=ff)
Construct(ff) ==
    /\ Len(boards) < MaxBoards
    /\ LET r == MainboardInit(ff, Len(heap))
       IN  /\ boards' = Append(boards, r.self)
           /\ heap' = heap \o r.objects
           /\ result' = [NoResult EXCEPT !.op = "__init__", !.self = Len(boards) + 1,
                                         !.returned = "self"]

Finish(op, b, r) ==
    /\ heap' = r.heap
    /\ result' = Outcome(op, b, r)
    /\ UNCHANGED boards

GetAllComponents(b) == Finish("get_all_components", b, get_all_components(boards[b], heap))

VerifyAllComponents(b) ==
    Finish("verify_all_components", b, verify_all_components(boards[b], heap))

MonitorTemperatures(b) ==
    Finish("monitor_temperatures", b, monitor_temperatures(boards[b], heap))

ManagePowerDelivery(b) ==
    Finish("manage_power_delivery", b, manage_power_delivery(boards[b], heap))

RunDiagnostics(b) == Finish("run_diagnostics", b, run_diagnostics(boards[b], heap))

Call(b) == Finish("call", b, call(boards[b], heap))

Next ==
    \/ \E ff \in FormFactors : Construct(ff)
    \/ \E b \in 1..Len(boards) : GetAllComponents(b)
    \/ \E b \in 1..Len(boards) : VerifyAllComponents(b)
    \/ \E b \in 1..Len(boards) : MonitorTemperatures(b)
    \/ \E b \in 1..Len(boards) : ManagePowerDelivery(b)
    \/ \E b \in 1..Len(boards) : RunDiagnostics(b)
    \/ \E b \in 1..Len(boards) : Call(b)

Spec == Init /\ [][Next]_vars


\* ---- registries whose components' status fields were written by a client ----

\* every way to pick at most MaxFaulty of the n objects
FaultySets(n) == {{f[i] : i \in 1..MaxFaulty} \ {0} : f \in [1..MaxFaulty -> 0..n]}

\* one constructed registry, some of its components carrying a status other
\* than the one the constructor gave them
InitStatus ==
    \E ff \in FormFactors, s \in Statuses \ {"operational"} :
        LET r == MainboardInit(ff, 0)
        IN  \E F \in FaultySets(Len(r.objects)) :
               /\ heap = [i \in 1..Len(r.objects) |->
                            IF i \in F THEN [r.objects[i] EXCEPT !.status = s]
                            ELSE r.objects[i]]
               /\ boards = <<r.self>>
               /\ result = NoResult

\* the operations applied to such a registry
NextStatus ==
    \/ \E b \in 1..Len(boards) : GetAllComponents(b)
    \/ \E b \in 1..Len(boards) : VerifyAllComponents(b)
    \/ \E b \in 1..Len(boards) : MonitorTemperatures(b)
    \/ \E b \in 1..Len(boards) : ManagePowerDelivery(b)
    \/ \E b \in 1..Len(boards) : RunDiagnostics(b)
    \/ \E b \in 1..Len(boards) : Call(b)

SpecStatus == InitStatus /\ [][NextStatus]_vars

\* ---- vocabulary of the properties ----

\* identities of the components a registry holds under one attribute
Held(attr) ==
    CASE attr.type = "MainboardComponent" -> {attr.ref}
      [] attr.type = "list" -> {attr.items[i] : i \in DOMAIN attr.items}
      [] attr.type = "dict" ->
            UNION {{attr.items[g][i] : i \in DOMAIN attr.items[g]} : g \in DOMAIN attr.items}
      [] OTHER -> {}

\* every component a registry owns
Owned(self) == UNION {Held(self[a]) : a \in DOMAIN self}

\* the components held in singleton fields and flat lists only
OwnedDirect(self) ==
    UNION {Held(self[a]) : a \in {x \in DOMAIN self : self[x].type # "dict"}}

Occurrences(seq, x) == Cardinality({i \in DOMAIN seq : seq[i] = x})

\* the places of a registry that hold a component: <<attribute, key, index>>
PlacesOf(a, attr) ==
    CASE attr.type = "MainboardComponent" -> {<<a, "", 1>>}
      [] attr.type = "list" -> {<<a, "", i>> : i \in DOMAIN attr.items}
      [] attr.type = "dict" ->
            UNION {{<<a, g, i>> : i \in DOMAIN attr.items[g]} : g \in DOMAIN attr.items}
      [] OTHER -> {}

Places(self) == UNION {PlacesOf(a, self[a]) : a \in DOMAIN self}

IsSingle(self, a, kind) ==
    /\ self[a].type = "MainboardComponent"
    /\ heap[self[a].ref].component_type = kind

IsList(items, n, kind) ==
    /\ Len(items) = n
    /\ \A i \in DOMAIN items : heap[items[i]].component_type = kind

TelemetryOps == {"monitor_temperatures", "manage_power_delivery", "run_diagnostics", "call"}

UndefinedSources ==
    {"get_cpu_temp", "get_vrm_temp", "get_m2_temp", "get_chipset_temp",
     "calculate_total_power", "calculate_power_efficiency"}

\* a registry with its object identities replaced by the objects' contents
Deref(attr) ==
    CASE attr.type = "MainboardComponent" -> heap[attr.ref]
      [] attr.type = "list" -> [i \in DOMAIN attr.items |-> heap[attr.items[i]]]
      [] attr.type = "dict" ->
            [g \in DOMAIN attr.items |->
                [i \in DOMAIN attr.items[g] |-> heap[attr.items[g][i]]]]

Topology(self) == [a \in DOMAIN self \ {"form_factor"} |-> Deref(self[a])]

\* ---- properties ----

\* C1: get_all_components returns every component the registry owns exactly
\* once, those held in the named groups (rgb_headers, pcie_slots) included.
C1_EveryOwnedExactlyOnce ==
    result.op = "get_all_components" =>
        /\ \A c \in Owned(boards[result.self]) : Occurrences(result.components, c) = 1
        /\ \A i \in DOMAIN result.components :
              result.components[i] \in Owned(boards[result.self])

C3_GroupCounts ==
    \A b \in DOMAIN boards :
        LET self == boards[b]
        IN  /\ IsSingle(self, "cpu_socket", "CPU Socket")
            /\ IsSingle(self, "chipset", "Chipset")
            /\ IsList(self["memory_slots"].items, 4, "RAM Slot")
            /\ IsList(self["m2_slots"].items, 4, "M.2 Slot")
            /\ IsList(self["sata_ports"].items, 8, "SATA Port")
            /\ IsSingle(self, "vrm", "VRM")
            /\ IsList(self["fan_headers"].items, 8, "Fan Header")
            /\ IsList(self["pump_headers"].items, 2, "Pump Header")
            /\ DOMAIN self["rgb_headers"].items = {"addressable", "traditional"}
            /\ IsList(self["rgb_headers"].items["addressable"], 3, "ARGB Header")
            /\ IsList(self["rgb_headers"].items["traditional"], 2, "RGB Header")
            /\ IsSingle(self, "debug_features", "Debug System")
            /\ IsSingle(self, "bios_system", "BIOS")
            /\ IsSingle(self, "audio_system", "Audio")
            /\ IsSingle(self, "network", "Network")
            /\ IsList(self["thunderbolt"].items, 2, "Thunderbolt 4")
            /\ DOMAIN self["pcie_slots"].items = {"x16", "x4", "x1"}
            /\ IsList(self["pcie_slots"].items["x16"], 2, "PCIe x16")
            /\ IsList(self["pcie_slots"].items["x4"], 1, "PCIe x4")
            /\ IsList(self["pcie_slots"].items["x1"], 2, "PCIe x1")

C3_Witness ==
    /\ Len(boards) = MaxBoards
    /\ boards[1]["form_factor"].val = "E-ATX"
    /\ boards[MaxBoards]["form_factor"].val = "Micro-ATX"

\* C4 as stated: a constructed registry owns 41 component records in total,
\* summed over its singleton fields, lists and named groups.
C4_TotalIs41 ==
    \A b \in DOMAIN boards :
        /\ Cardinality(Places(boards[b])) = 41
        /\ Cardinality(Owned(boards[b])) = 41

\* C4 amended: a constructed registry owns 45 component records in total: the
\* sizes of its singleton fields, lists and named groups add up to 45, and they
\* are 45 distinct objects.
C4_TotalIs45 ==
    \A b \in DOMAIN boards :
        /\ Cardinality(Places(boards[b])) = 45
        /\ Cardinality(Owned(boards[b])) = 45
        /\ Owned(boards[b]) \subseteq DOMAIN heap

C4_Witness ==
    /\ Len(boards) = MaxBoards
    /\ boards[MaxBoards]["form_factor"].val = "ATX"
    /\ Len(heap) = 45 * MaxBoards


C7_RegistryUnchanged ==
    [][/\ \A b \in DOMAIN boards : b \in DOMAIN boards' /\ boards'[b] = boards[b]
       /\ \A c \in DOMAIN heap : c \in DOMAIN heap' /\ heap'[c] = heap[c]
       /\ result'.op # "__init__" => boards' = boards /\ heap' = heap
       /\ \A b \in DOMAIN boards' : \A c \in Owned(boards'[b]) :
             heap'[c].status = "operational"]_vars

C7_Witness ==
    /\ result.op = "run_diagnostics"
    /\ result.raised # ""
    /\ Len(boards) = MaxBoards
    /\ \A b \in DOMAIN boards : \A c \in Owned(boards[b]) : heap[c].status = "operational"

\* C8: right after construction every component of the new registry has status
\* 'operational', temperature 0, power_draw 0, no location and no connections.
C8_InitialFields ==
    [][Len(boards') > Len(boards) =>
          \A c \in Owned(boards'[Len(boards')]) :
              /\ heap'[c].status = "operational"
              /\ heap'[c].temperature = 0
              /\ heap'[c].power_draw = 0
              /\ heap'[c].location = None
              /\ heap'[c].connections = <<>>]_vars

C8_Witness ==
    /\ result.op = "__init__"
    /\ result.self = MaxBoards
    /\ Cardinality(Owned(boards[result.self])) > 0

\* C9: registries constructed with the same form_factor are structurally equal,
\* and registries constructed with different form_factor values differ only in
\* the form_factor label.
C9_SameTopology ==
    \A i, j \in DOMAIN boards :
        /\ DOMAIN boards[i] = DOMAIN boards[j]
        /\ Topology(boards[i]) = Topology(boards[j])
        /\ boards[i]["form_factor"].val = boards[j]["form_factor"].val =>
              [a \in DOMAIN boards[i] |->
                  IF a = "form_factor" THEN boards[i][a].val ELSE Deref(boards[i][a])]
              = [a \in DOMAIN boards[j] |->
                  IF a = "form_factor" THEN boards[j][a].val ELSE Deref(boards[j][a])]

C9_Witness ==
    /\ Len(boards) >= 2
    /\ boards[1]["form_factor"].val = "ATX"
    /\ boards[2]["form_factor"].val = "Micro-ATX"
    /\ Owned(boards[1]) \cap Owned(boards[2]) = {}

\* index of the last component of kind k in a sequence of components
LastOfKind(components, k) ==
    CHOOSE i \in DOMAIN components :
        /\ heap[components[i]].component_type = k
        /\ \A j \in DOMAIN components :
              heap[components[j]].component_type = k => j <= i

\* C10: for every key k of the mapping verify_all_components returns, the value
\* is the status of the last component of kind k in the order of
\* get_all_components, whatever the components' statuses.
C10_LastEntryWins ==
    result.op = "verify_all_components" =>
        LET components == get_all_components(boards[result.self], heap).components
        IN  \A k \in DOMAIN result.statuses :
               result.statuses[k] = heap[components[LastOfKind(components, k)]].status

C10_Witness ==
    /\ result.op = "verify_all_components"
    /\ LET components == get_all_components(boards[result.self], heap).components
       IN  \E i, j \in DOMAIN components :
              /\ i < j
              /\ heap[components[i]].component_type = heap[components[j]].component_type
              /\ heap[components[i]].status # heap[components[j]].status
              /\ j = LastOfKind(components, heap[components[j]].component_type)
              /\ result.statuses[heap[components[j]].component_type]
                    = heap[components[j]].status

====
